---- MODULE Spec2Model ----
(***************************************************************************)
(* Model of scripts/pr_review_bot.py: one run of main(), a sequential      *)
(* orchestration of git, the per-language tools and one HTTP POST.         *)
(* Strings are TLA+ strings; strip, splitlines, endswith and join are      *)
(* computed character by character as Python computes them.                *)
(***************************************************************************)
EXTENDS Integers, Sequences, FiniteSets, TLC

VARIABLES
    pc,            \* position in main()
    repo,          \* os.getenv("GITHUB_REPOSITORY"): <<>> is None, <<s>> a string
    token,         \* os.getenv("GITHUB_TOKEN"), same encoding
    event,         \* state of the file GITHUB_EVENT_PATH points to
    tests_exists,  \* Path("tests").exists()
    package_json,  \* Path("package.json").exists()
    pr_number,     \* <<>> is None, <<n>> a number
    fetch_res,     \* what run_cmd returned for git fetch (code -1 before it ran)
    diff_res,      \* what run_cmd returned for git diff (code -1 before it ran)
    files,         \* result of get_changed_files
    cmds,          \* every command line handed to run_cmd, in order
    python_md, py_fail,
    js_md, js_fail,
    cpp_md, cpp_fail,
    total_fail,
    body,          \* the summary or report body (the empty string before it is built)
    stdout,        \* the lines print() wrote, in order
    posts,         \* the requests.post calls made, in order
    exit_code,     \* -1 while running
    raised         \* name of the exception that escaped main(), "" if none

vars == <<pc, repo, token, event, tests_exists, package_json, pr_number,
          fetch_res, diff_res, files, cmds, python_md, py_fail, js_md,
          js_fail, cpp_md, cpp_fail, total_fail, body, stdout, posts,
          exit_code, raised>>

----------------------------------------------------------------------------
\* Bounds of the model

MaxPrNumber == 1

----------------------------------------------------------------------------
\* Python string primitives

Char(s, i) == SubSeq(s, i, i)

IsSpace(c) == c \in {" ", "\n", "\t", "\r"}

RECURSIVE LStrip(_)
LStrip(s) ==
    IF Len(s) > 0 /\ IsSpace(Char(s, 1)) THEN LStrip(SubSeq(s, 2, Len(s))) ELSE s

RECURSIVE RStrip(_)
RStrip(s) ==
    IF Len(s) > 0 /\ IsSpace(Char(s, Len(s))) THEN RStrip(SubSeq(s, 1, Len(s) - 1)) ELSE s

\* str.strip()
Strip(s) == RStrip(LStrip(s))

\* str.endswith(suffix)
EndsWith(s, suf) ==
    Len(s) >= Len(suf) /\ SubSeq(s, Len(s) - Len(suf) + 1, Len(s)) = suf

\* str.endswith((suffix, ...))
EndsWithAny(s, sufs) == \E suf \in sufs : EndsWith(s, suf)

\* str.splitlines(): split at "\n", no empty piece after a final "\n"
RECURSIVE SplitFrom(_, _, _)
SplitFrom(s, i, cur) ==
    IF i > Len(s) THEN (IF cur = "" THEN <<>> ELSE <<cur>>)
    ELSE IF Char(s, i) = "\n" THEN <<cur>> \o SplitFrom(s, i + 1, "")
    ELSE SplitFrom(s, i + 1, cur \o Char(s, i))

SplitLines(s) == SplitFrom(s, 1, "")

\* sep.join(parts)
RECURSIVE Join(_, _)
Join(sep, parts) ==
    IF parts = <<>> THEN ""
    ELSE IF Len(parts) = 1 THEN parts[1]
    ELSE parts[1] \o sep \o Join(sep, Tail(parts))

\* seq[:n]
Take(seq, n) == SubSeq(seq, 1, IF Len(seq) < n THEN Len(seq) ELSE n)

\* truthiness of an Optional[str] / Optional[int]
TruthyStr(o) == o # <<>> /\ o[1] # ""
TruthyInt(o) == o # <<>> /\ o[1] # 0

----------------------------------------------------------------------------
\* The environment of one run

base_ref == "main"

RepoValues == {<<>>, <<"octo/repo">>}
TokenValues == {<<"">>, <<"ghs_t">>}

\* The file GITHUB_EVENT_PATH names: the variable unset or empty, the path
\* not a file, a file json.load or the .get calls reject (not JSON, not an
\* object), an object without "pull_request", a pull_request object without
\* "number", a pull_request object with a number.
EventStates ==
    { [kind |-> k, number |-> 0] :
        k \in {"unset", "missing", "unparseable", "no_pull_request", "no_number"} }
    \cup { [kind |-> "number", number |-> n] : n \in 1..MaxPrNumber }

\* What subprocess.run can do with a command: exit with a code and the two
\* captured streams, or raise (TimeoutExpired, OSError).
Exited(c, o, e) == [kind |-> "exit", code |-> c, out |-> o, err |-> e]
Raised(m) == [kind |-> "raise", code |-> 0, out |-> "", err |-> m]

ProcOutcomes ==
    { Exited(0, "ok\n", ""),
      Exited(1, "E1 bad\n", "warn\n"),
      Exited(1, "", "fatal\n"),
      Exited(2, " \n", ""),
      Raised("timed out") }

FetchOutcomes == { Exited(0, "", ""), Exited(128, "", "fatal: no remote\n") }

DiffOutputs ==
    { "", "README.md\n", "a.py\n", "x.ts\n", "m.cc\nn.h\n", "x.tsx\n\nlib.hpp\n" }

DiffOutcomes ==
    { Exited(0, o, "") : o \in DiffOutputs }
    \cup { Exited(128, "", "fatal: bad revision\n"), Exited(1, "a.py\n", ""), Raised("timed out") }

ClangOutcomes == { Exited(0, "", ""), Exited(1, "", "code should be clang-formatted\n"), Raised("timed out") }

\* What requests.post can do: return a response or raise
Response(s, t) == [kind |-> "response", status |-> s, text |-> t]

HttpOutcomes ==
    { Response(201, "Created"), Response(300, "Multiple Choices"),
      Response(403, "Forbidden"), [kind |-> "raise", status |-> 0, text |-> "ConnectionError"] }

----------------------------------------------------------------------------
\* The functions of pr_review_bot.py

\* run_cmd: <<returncode, stdout.strip(), stderr.strip()>>, or
\* <<1, "", "Exception: ...">> when subprocess.run raises
run_cmd(raw) ==
    IF raw.kind = "exit" THEN <<raw.code, Strip(raw.out), Strip(raw.err)>>
    ELSE <<1, "", "Exception: " \o raw.err>>

\* The module's strings are ASCII without the grave accent: Fence stands for
\* the three-grave-accent code fence, [OK] and [X] for the check-mark and
\* cross-mark emoji of the source.
Fence == "~~~"

md_section(title, text) ==
    IF Strip(text) # ""
    THEN "\n### " \o title \o "\n\n" \o Fence \o "\n" \o Strip(text) \o "\n" \o Fence \o "\n"
    ELSE ""

\* the Python expression (a or b) on two strings
Or(a, b) == IF a # "" THEN a ELSE b

NonBlank(line) == Strip(line) # ""

StripAll(lines) == [i \in 1..Len(lines) |-> Strip(lines[i])]

\* get_changed_files, given what run_cmd returned for the fetch (not looked
\* at) and for the diff
get_changed_files(fetch_r, diff_r) ==
    IF diff_r[1] # 0 \/ Strip(diff_r[2]) = "" THEN <<>>
    ELSE StripAll(SelectSeq(SplitLines(diff_r[2]), NonBlank))

\* get_pr_number_from_event: the value returned, or the exception raised
get_pr_number_from_event(ev) ==
    CASE ev.kind \in {"unset", "missing"} -> [raises |-> "", value |-> <<>>]
      [] ev.kind = "unparseable"          -> [raises |-> "JSONDecodeError", value |-> <<>>]
      [] ev.kind = "no_pull_request"      -> [raises |-> "", value |-> <<>>]
      [] ev.kind = "no_number"            -> [raises |-> "", value |-> <<>>]
      [] ev.kind = "number"               -> [raises |-> "", value |-> <<ev.number>>]

\* One "run the tool, append a section or a success line" block of a checker
ToolStep(acc, cmd, title, okline, raw) ==
    LET r == run_cmd(raw)
    IN  IF r[1] # 0
        THEN [sections |-> Append(acc.sections, md_section(title, Or(r[2], r[3]))),
              failures |-> acc.failures + 1,
              cmds     |-> Append(acc.cmds, cmd)]
        ELSE [sections |-> Append(acc.sections, okline),
              failures |-> acc.failures,
              cmds     |-> Append(acc.cmds, cmd)]

NoResult == [md |-> "", failures |-> 0, cmds |-> <<>>]
Start == [sections |-> <<>>, failures |-> 0, cmds |-> <<>>]
Return(acc) == [md |-> Join("\n", acc.sections), failures |-> acc.failures, cmds |-> acc.cmds]

IsPy(f) == EndsWith(f, ".py")
IsJs(f) == EndsWithAny(f, {".js", ".jsx", ".ts", ".tsx"})
IsCpp(f) == EndsWithAny(f, {".cpp", ".cc", ".cxx", ".h", ".hpp"})

\* check_python with the formatter check and the tests skipped once flake8 failed
check_python_stop_on_failure(fs, tests, raws) ==
    LET py_files == SelectSeq(fs, IsPy)
        s1 == ToolStep(Start, "flake8 " \o Join(" ", py_files), "Python flake8",
                       "[OK] flake8: no issues found.\n", raws[1])
        s2 == IF s1.failures > 0 THEN s1
              ELSE ToolStep(s1, "black --check " \o Join(" ", py_files), "Python black --check",
                            "[OK] black --check: formatted correctly.\n", raws[2])
        s3 == IF tests /\ s2.failures = 0
              THEN ToolStep(s2, "pytest -q", "pytest", "[OK] pytest: all tests passed.\n", raws[3])
              ELSE s2
    IN  IF py_files = <<>> THEN NoResult ELSE Return(s3)

\* check_python; raws[1..3] are the outcomes of flake8, black and pytest
check_python(fs, tests, raws) ==
    LET py_files == SelectSeq(fs, IsPy)
        s1 == ToolStep(Start, "flake8 " \o Join(" ", py_files), "Python flake8",
                       "[OK] flake8: no issues found.\n", raws[1])
        s2 == ToolStep(s1, "black --check " \o Join(" ", py_files), "Python black --check",
                       "[OK] black --check: formatted correctly.\n", raws[2])
        s3 == IF tests
              THEN ToolStep(s2, "pytest -q", "pytest", "[OK] pytest: all tests passed.\n", raws[3])
              ELSE s2
    IN  IF py_files = <<>> THEN NoResult ELSE Return(s3)

\* check_js without the package.json guard
check_js_no_manifest_guard(fs, manifest, raws) ==
    LET js_files == SelectSeq(fs, IsJs)
        s1 == ToolStep(Start, "npx --yes eslint " \o Join(" ", js_files), "ESLint",
                       "[OK] ESLint: no issues found.\n", raws[1])
        s2 == ToolStep(s1, "npx --yes prettier -c " \o Join(" ", js_files), "Prettier --check",
                       "[OK] Prettier: formatting OK.\n", raws[2])
    IN  IF js_files = <<>> THEN NoResult ELSE Return(s2)

\* check_js; raws[1..2] are the outcomes of eslint and prettier
check_js(fs, manifest, raws) ==
    LET js_files == SelectSeq(fs, IsJs)
        s1 == ToolStep(Start, "npx --yes eslint " \o Join(" ", js_files), "ESLint",
                       "[OK] ESLint: no issues found.\n", raws[1])
        s2 == ToolStep(s1, "npx --yes prettier -c " \o Join(" ", js_files), "Prettier --check",
                       "[OK] Prettier: formatting OK.\n", raws[2])
    IN  IF js_files = <<>> \/ ~manifest THEN NoResult ELSE Return(s2)

\* the clang-format loop: one command per file, the files whose check failed
ClangCmds(cpp_files) ==
    [i \in 1..Len(cpp_files) |-> "clang-format --dry-run --Werror " \o cpp_files[i]]

RECURSIVE ClangChanged(_, _, _)
ClangChanged(cpp_files, fmt, i) ==
    IF i > Len(cpp_files) THEN <<>>
    ELSE (IF run_cmd(fmt[i])[1] # 0 THEN <<cpp_files[i]>> ELSE <<>>)
         \o ClangChanged(cpp_files, fmt, i + 1)

\* check_cpp; lint is the outcome of cpplint, fmt[i] of clang-format on file i
check_cpp(fs, lint, fmt) ==
    LET cpp_files == SelectSeq(fs, IsCpp)
        s1 == ToolStep(Start, "cpplint " \o Join(" ", cpp_files), "cpplint",
                       "[OK] cpplint: no issues found.\n", lint)
        changed == ClangChanged(cpp_files, fmt, 1)
        s2 == IF changed # <<>>
              THEN [sections |-> Append(s1.sections,
                                        md_section("clang-format --dry-run --Werror",
                                                   Join("\n", changed))),
                    failures |-> s1.failures + 1,
                    cmds     |-> s1.cmds \o ClangCmds(cpp_files)]
              ELSE [sections |-> Append(s1.sections, "[OK] clang-format: formatting OK.\n"),
                    failures |-> s1.failures,
                    cmds     |-> s1.cmds \o ClangCmds(cpp_files)]
    IN  IF cpp_files = <<>> THEN NoResult ELSE Return(s2)

MaxHeaderFiles == 50

SkipSummary == "No changed files detected or unable to compute diff. Skipping checks."
FailBanner == "\n\n[X] Some checks failed. Please address the issues above."
PassBanner == "\n\n[OK] All checks passed. Nice work!"

Header(fs) ==
    "## Automated Code Review Summary\n\nChanged files:\n- "
        \o Join("\n- ", Take(fs, MaxHeaderFiles))

\* the banner with the comparison off by one
BannerOffByOne(total) == IF total > 1 THEN FailBanner ELSE PassBanner

Banner(total) == IF total > 0 THEN FailBanner ELSE PassBanner

\* the report body of main, lines 142-148
Report(fs, pmd, jmd, cmd, total) ==
    Header(fs) \o "\n\n" \o pmd \o jmd \o cmd \o Banner(total)

\* the guard without the token
ShouldPostWithoutToken(r, t, n) == TruthyStr(r) /\ TruthyInt(n)

\* the guard of both post_pr_comment calls
ShouldPost(r, t, n) == TruthyStr(r) /\ TruthyStr(t) /\ TruthyInt(n)

CommentUrl(r, n) ==
    "https://api.github.com/repos/" \o r \o "/issues/" \o ToString(n) \o "/comments"

\* post_pr_comment: the lines it prints, given the outcome of requests.post
PostWarning(resp) ==
    IF resp.kind = "response" /\ resp.status >= 300
    THEN << "[WARN] Failed to post PR comment: " \o ToString(resp.status) \o " " \o resp.text >>
    ELSE <<>>

----------------------------------------------------------------------------
\* One run of main()

NotRun == <<-1, "", "">>

Init ==
    /\ pc = "get_pr_number"
    /\ repo \in RepoValues
    /\ token \in TokenValues
    /\ event \in EventStates
    /\ tests_exists \in BOOLEAN
    /\ package_json \in BOOLEAN
    /\ pr_number = <<>>
    /\ fetch_res = NotRun
    /\ diff_res = NotRun
    /\ files = <<>>
    /\ cmds = <<>>
    /\ python_md = "" /\ py_fail = 0
    /\ js_md = "" /\ js_fail = 0
    /\ cpp_md = "" /\ cpp_fail = 0
    /\ total_fail = 0
    /\ body = ""
    /\ stdout = <<>>
    /\ posts = <<>>
    /\ exit_code = -1
    /\ raised = ""

\* an exception leaves main(): the interpreter prints a traceback, exits with 1
Uncaught(name) ==
    /\ pc' = "exited"
    /\ exit_code' = 1
    /\ raised' = name

\* line 127
GetPrNumber ==
    /\ pc = "get_pr_number"
    /\ LET r == get_pr_number_from_event(event)
       IN  IF r.raises # ""
           THEN Uncaught(r.raises) /\ UNCHANGED pr_number
           ELSE /\ pr_number' = r.value
                /\ pc' = "git_fetch"
                /\ UNCHANGED <<exit_code, raised>>
    /\ UNCHANGED <<repo, token, event, tests_exists, package_json, fetch_res, diff_res,
                   files, cmds, python_md, py_fail, js_md, js_fail, cpp_md, cpp_fail,
                   total_fail, body, stdout, posts>>

\* line 129, get_changed_files line 21
GitFetch ==
    /\ pc = "git_fetch"
    /\ \E raw \in FetchOutcomes :
         /\ fetch_res' = run_cmd(raw)
         /\ cmds' = Append(cmds, "git fetch origin " \o base_ref)
    /\ pc' = "git_diff"
    /\ UNCHANGED <<repo, token, event, tests_exists, package_json, pr_number, diff_res,
                   files, python_md, py_fail, js_md, js_fail, cpp_md, cpp_fail,
                   total_fail, body, stdout, posts, exit_code, raised>>

\* line 129, get_changed_files lines 22-25, and the branch of line 130
GitDiff ==
    /\ pc = "git_diff"
    /\ \E raw \in DiffOutcomes :
         /\ diff_res' = run_cmd(raw)
         /\ files' = get_changed_files(fetch_res, run_cmd(raw))
         /\ cmds' = Append(cmds, "git diff --name-only origin/" \o base_ref \o "...HEAD")
    /\ pc' = IF files' = <<>> THEN "skip_print" ELSE "check_python"
    /\ UNCHANGED <<repo, token, event, tests_exists, package_json, pr_number, fetch_res,
                   python_md, py_fail, js_md, js_fail, cpp_md, cpp_fail,
                   total_fail, body, stdout, posts, exit_code, raised>>

\* lines 131-132
SkipPrint ==
    /\ pc = "skip_print"
    /\ body' = SkipSummary
    /\ stdout' = Append(stdout, SkipSummary)
    /\ pc' = "skip_post"
    /\ UNCHANGED <<repo, token, event, tests_exists, package_json, pr_number, fetch_res,
                   diff_res, files, cmds, python_md, py_fail, js_md, js_fail, cpp_md,
                   cpp_fail, total_fail, posts, exit_code, raised>>

\* post_pr_comment(repo, pr_number, token, text) when requests.post does resp;
\* then_pc and then_code are where main() goes when the call returns
PostComment(text, resp, then_pc, then_code) ==
    /\ posts' = Append(posts, [url |-> CommentUrl(repo[1], pr_number[1]),
                               token |-> token[1], body |-> text])
    /\ IF resp.kind = "raise"
       THEN Uncaught(resp.text) /\ UNCHANGED stdout
       ELSE /\ stdout' = stdout \o PostWarning(resp)
            /\ pc' = then_pc
            /\ exit_code' = then_code
            /\ UNCHANGED raised

\* lines 133-135
SkipPost ==
    /\ pc = "skip_post"
    /\ IF ShouldPost(repo, token, pr_number)
       THEN \E resp \in HttpOutcomes : PostComment(body, resp, "exited", 0)
       ELSE /\ pc' = "exited"
            /\ exit_code' = 0
            /\ UNCHANGED <<posts, stdout, raised>>
    /\ UNCHANGED <<repo, token, event, tests_exists, package_json, pr_number, fetch_res,
                   diff_res, files, cmds, python_md, py_fail, js_md, js_fail, cpp_md,
                   cpp_fail, total_fail, body>>

\* line 137
CheckPython ==
    /\ pc = "check_python"
    /\ \E raws \in [1..3 -> ProcOutcomes] :
         LET res == check_python(files, tests_exists, raws)
         IN  /\ python_md' = res.md
             /\ py_fail' = res.failures
             /\ cmds' = cmds \o res.cmds
    /\ pc' = "check_js"
    /\ UNCHANGED <<repo, token, event, tests_exists, package_json, pr_number, fetch_res,
                   diff_res, files, js_md, js_fail, cpp_md, cpp_fail, total_fail, body,
                   stdout, posts, exit_code, raised>>

\* line 138
CheckJs ==
    /\ pc = "check_js"
    /\ \E raws \in [1..2 -> ProcOutcomes] :
         LET res == check_js(files, package_json, raws)
         IN  /\ js_md' = res.md
             /\ js_fail' = res.failures
             /\ cmds' = cmds \o res.cmds
    /\ pc' = "check_cpp"
    /\ UNCHANGED <<repo, token, event, tests_exists, package_json, pr_number, fetch_res,
                   diff_res, files, python_md, py_fail, cpp_md, cpp_fail, total_fail, body,
                   stdout, posts, exit_code, raised>>

\* line 139
CheckCpp ==
    /\ pc = "check_cpp"
    /\ \E lint \in ProcOutcomes :
       \E fmt \in [1..Len(SelectSeq(files, IsCpp)) -> ClangOutcomes] :
         LET res == check_cpp(files, lint, fmt)
         IN  /\ cpp_md' = res.md
             /\ cpp_fail' = res.failures
             /\ cmds' = cmds \o res.cmds
    /\ pc' = "assemble"
    /\ UNCHANGED <<repo, token, event, tests_exists, package_json, pr_number, fetch_res,
                   diff_res, files, python_md, py_fail, js_md, js_fail, total_fail, body,
                   stdout, posts, exit_code, raised>>

\* lines 141-148
Assemble ==
    /\ pc = "assemble"
    /\ total_fail' = py_fail + js_fail + cpp_fail
    /\ body' = Report(files, python_md, js_md, cpp_md, py_fail + js_fail + cpp_fail)
    /\ pc' = "post"
    /\ UNCHANGED <<repo, token, event, tests_exists, package_json, pr_number, fetch_res,
                   diff_res, files, cmds, python_md, py_fail, js_md, js_fail, cpp_md,
                   cpp_fail, stdout, posts, exit_code, raised>>

\* lines 150-151
Post ==
    /\ pc = "post"
    /\ IF ShouldPost(repo, token, pr_number)
       THEN \E resp \in HttpOutcomes : PostComment(body, resp, "print", exit_code)
       ELSE /\ pc' = "print"
            /\ UNCHANGED <<posts, stdout, exit_code, raised>>
    /\ UNCHANGED <<repo, token, event, tests_exists, package_json, pr_number, fetch_res,
                   diff_res, files, cmds, python_md, py_fail, js_md, js_fail, cpp_md,
                   cpp_fail, total_fail, body>>

\* line 152
PrintBody ==
    /\ pc = "print"
    /\ stdout' = Append(stdout, body)
    /\ pc' = "exit"
    /\ UNCHANGED <<repo, token, event, tests_exists, package_json, pr_number, fetch_res,
                   diff_res, files, cmds, python_md, py_fail, js_md, js_fail, cpp_md,
                   cpp_fail, total_fail, body, posts, exit_code, raised>>

\* lines 153-154
ExitCode(total) == IF total > 0 THEN 1 ELSE 0

Exit ==
    /\ pc = "exit"
    /\ exit_code' = ExitCode(total_fail)
    /\ pc' = "exited"
    /\ UNCHANGED <<repo, token, event, tests_exists, package_json, pr_number, fetch_res,
                   diff_res, files, cmds, python_md, py_fail, js_md, js_fail, cpp_md,
                   cpp_fail, total_fail, body, stdout, posts, raised>>

Next ==
    \/ GetPrNumber
    \/ GitFetch
    \/ GitDiff
    \/ SkipPrint
    \/ SkipPost
    \/ CheckPython
    \/ CheckJs
    \/ CheckCpp
    \/ Assemble
    \/ Post
    \/ PrintBody
    \/ Exit

Spec == Init /\ [][Next]_vars

TypeOK ==
    /\ pc \in {"get_pr_number", "git_fetch", "git_diff", "skip_print", "skip_post",
               "check_python", "check_js", "check_cpp", "assemble", "post", "print",
               "exit", "exited"}
    /\ exit_code \in {-1, 0, 1}
    /\ (pc = "exited") = (exit_code # -1)

----------------------------------------------------------------------------
\* Vocabulary of the properties

StartsWith(s, pre) == Len(s) >= Len(pre) /\ SubSeq(s, 1, Len(pre)) = pre

\* number of occurrences of pat in s
Count(s, pat) ==
    Cardinality({ i \in 1..(Len(s) - Len(pat) + 1) : SubSeq(s, i, i + Len(pat) - 1) = pat })

HasExt(fs, exts) == \E i \in DOMAIN fs : EndsWithAny(fs[i], exts)

PyExts == {".py"}
JsExts == {".js", ".jsx", ".ts", ".tsx"}
CppExts == {".cpp", ".cc", ".cxx", ".h", ".hpp"}

IsPyCmd(c) == StartsWith(c, "flake8 ") \/ StartsWith(c, "black ") \/ StartsWith(c, "pytest")
IsJsCmd(c) == StartsWith(c, "npx ")
IsCppCmd(c) == StartsWith(c, "cpplint ") \/ StartsWith(c, "clang-format ")

Invoked(IsCmd(_)) == \E i \in DOMAIN cmds : IsCmd(cmds[i])

Failures == py_fail + js_fail + cpp_fail

\* get_changed_files has returned
DiffDone == diff_res # NotRun

\* all three checkers have returned
CheckersDone ==
    \/ pc \in {"assemble", "post", "print", "exit"}
    \/ pc = "exited" /\ files # <<>> /\ body # ""

\* main has built the report body (files changed, banner appended)
ReportBuilt == files # <<>> /\ body # ""

Printed(text) == \E i \in DOMAIN stdout : stdout[i] = text

Headed(md) == Count(md, "\n### ")

CredentialsPresent ==
    /\ repo # <<>> /\ repo[1] # ""
    /\ token # <<>> /\ token[1] # ""
    /\ event.kind = "number"

----------------------------------------------------------------------------
\* Properties

\* C1: when main has ended, the exit code is 1 exactly if the three checkers'
\* failure counts sum to more than zero, and it is 0 whenever
\* get_changed_files returned no file.
C1_ExitCodeIffFailures ==
    pc = "exited" =>
        /\ (exit_code = 1) <=> (Failures > 0)
        /\ (DiffDone /\ files = <<>>) => exit_code = 0

\* C2: a failed comment post (status >= 300 or an exception of the HTTP call)
\* never aborts main and never changes the exit code the failure total sets.
C2_PostFailureAbsorbed ==
    (pc = "exited" /\ posts # <<>>) =>
        /\ raised = ""
        /\ exit_code = (IF Failures > 0 THEN 1 ELSE 0)

\* C3: every run of main that got as far as resolving the changed files has
\* printed its final body (report or skipping message) when it ends, whatever
\* the comment post did.
C3_BodyPrinted ==
    (pc = "exited" /\ DiffDone) => (body # "" /\ Printed(body))

\* C4: in every state of the event file that gives no PR number (unset,
\* missing, unparseable, no pull_request, no number) main raises nothing,
\* posts nothing and still resolves the diff, prints its body and exits with
\* the code the checkers decide.
C4_NoPrNumberDegrades ==
    (pc = "exited" /\ event.kind # "number") =>
        /\ raised = ""
        /\ posts = <<>>
        /\ DiffDone
        /\ body # "" /\ Printed(body)
        /\ exit_code = (IF Failures > 0 THEN 1 ELSE 0)

\* C5: the number of headed failure sections in each checker's Markdown
\* equals that checker's failure count (for check_cpp: the cpplint section
\* and the clang-format section).
C5_SectionsEqualFailures ==
    /\ Headed(python_md) = py_fail
    /\ Headed(js_md) = js_fail
    /\ Headed(cpp_md) = cpp_fail

\* C6: when the fetch or the diff exited non-zero, or the diff printed
\* nothing, get_changed_files returned no file, no checker tool is run and
\* main exits 0.
C6_DiffFailureSkips ==
    (DiffDone /\ (fetch_res[1] # 0 \/ diff_res[1] # 0 \/ diff_res[2] = "")) =>
        /\ files = <<>>
        /\ Len(cmds) = 2
        /\ pc \in {"skip_print", "skip_post", "exited"}
        /\ pc = "exited" => exit_code = 0

\* C7: a checker given no file with one of its extensions returns ("", 0) and
\* runs no tool; check_js does the same whenever package.json is absent.
C7_NoMatchNoTools ==
    /\ ~HasExt(files, PyExts) =>
           python_md = "" /\ py_fail = 0 /\ ~Invoked(IsPyCmd)
    /\ (~HasExt(files, JsExts) \/ ~package_json) =>
           js_md = "" /\ js_fail = 0 /\ ~Invoked(IsJsCmd)
    /\ ~HasExt(files, CppExts) =>
           cpp_md = "" /\ cpp_fail = 0 /\ ~Invoked(IsCppCmd)

\* C7 witness: x.ts changed, no package.json, and the run has ended
C7_Witness ==
    pc = "exited" /\ files = <<"x.ts">> /\ ~package_json /\ raised = "" /\ Len(cmds) = 2

\* The commands each checker must have run, in order, from the changed files
Matched(exts) == SelectSeq(files, LAMBDA f : EndsWithAny(f, exts))

GitCmds == << "git fetch origin main", "git diff --name-only origin/main...HEAD" >>

ExpectedPy ==
    IF Matched(PyExts) = <<>> THEN <<>>
    ELSE << "flake8 " \o Join(" ", Matched(PyExts)),
            "black --check " \o Join(" ", Matched(PyExts)) >>
         \o (IF tests_exists THEN << "pytest -q" >> ELSE <<>>)

ExpectedJsAlways ==
    IF Matched(JsExts) = <<>> THEN <<>>
    ELSE << "npx --yes eslint " \o Join(" ", Matched(JsExts)),
            "npx --yes prettier -c " \o Join(" ", Matched(JsExts)) >>

ExpectedJs == IF package_json THEN ExpectedJsAlways ELSE <<>>

ExpectedCpp ==
    IF Matched(CppExts) = <<>> THEN <<>>
    ELSE << "cpplint " \o Join(" ", Matched(CppExts)) >>
         \o [i \in 1..Len(Matched(CppExts)) |->
                "clang-format --dry-run --Werror " \o Matched(CppExts)[i]]

\* C8 as stated: for every non-empty matched file set each checker's tools ran
\* exactly once, in order, whatever the earlier tools returned.
C8_ToolsOncePerMatch ==
    /\ pc = "check_js" => cmds = GitCmds \o ExpectedPy
    /\ pc = "check_cpp" => cmds = GitCmds \o ExpectedPy \o ExpectedJsAlways
    /\ CheckersDone => cmds = GitCmds \o ExpectedPy \o ExpectedJsAlways \o ExpectedCpp

\* C8 amended: for every non-empty matched file set (for check_js: and
\* package.json present) each checker's tools ran exactly once, in the order
\* linter, formatter check (then pytest if tests exists), clang-format once
\* per matched file, whatever the earlier tools and checkers returned.
C8_ToolsOncePerRunnableMatch ==
    /\ pc = "check_js" => cmds = GitCmds \o ExpectedPy
    /\ pc = "check_cpp" => cmds = GitCmds \o ExpectedPy \o ExpectedJs
    /\ CheckersDone => cmds = GitCmds \o ExpectedPy \o ExpectedJs \o ExpectedCpp

\* C8 witness: both ESLint and Prettier failed and check_cpp still ran its
\* linter and one clang-format
C8_Witness ==
    /\ pc = "exited" /\ files = <<"x.tsx", "lib.hpp">> /\ package_json
    /\ js_fail = 2 /\ cpp_fail = 2 /\ Len(cmds) = 6

\* C9: the report body ends in exactly one banner: the failure banner if the
\* failure counts sum to more than zero, the success banner otherwise.
C9_ExactlyOneBanner ==
    ReportBuilt =>
        /\ EndsWith(body, FailBanner) <=> (Failures > 0)
        /\ EndsWith(body, PassBanner) <=> (Failures = 0)
        /\ Count(body, "Some checks failed.") + Count(body, "All checks passed.") = 1

\* C9 witness: one failure, the failure banner, the comment rejected
C9_Witness ==
    /\ pc = "exited" /\ ReportBuilt /\ Failures = 1 /\ EndsWith(body, FailBanner)
    /\ posts # <<>> /\ Len(stdout) = 2

\* C10: the comment post is attempted at most once, at the end exactly if
\* repository, token and PR number are all present, and when files changed
\* only with the finished report (all checkers done, banner appended).
C10_PostOnceWhenPresent ==
    /\ Len(posts) <= 1
    /\ pc = "exited" => ((Len(posts) = 1) <=> CredentialsPresent)
    /\ (posts # <<>> /\ files # <<>>) =>
           /\ pc \in {"print", "exit", "exited"}
           /\ posts[1].body = body
           /\ EndsWith(body, FailBanner) \/ EndsWith(body, PassBanner)
           /\ cmds = GitCmds \o ExpectedPy \o ExpectedJs \o ExpectedCpp

\* C10 witness: checks failed and the report was still posted, once
C10_Witness ==
    pc = "exited" /\ Len(posts) = 1 /\ files # <<>> /\ Failures > 0 /\ exit_code = 1 /\ raised = ""

====
